---- MODULE Spec2Model ----
(***************************************************************************)
(* Word-tracking and analysis pipeline of furinote: the record store       *)
(* (entries, words), the vocabulary merge (createOrUpdateWord), the word   *)
(* extractor (MeCab path and regex fallback), the analysis orchestrator    *)
(* (analyzeEntry, analyzeUnanalyzedEntries, forceReanalyzeAll,             *)
(* analyzeAfterSave) and the save path (saveEntry).                        *)
(*                                                                         *)
(* Text is a sequence of UTF-16 code units.  An entry id and a word row id *)
(* are opaque strings in the program (Math.random().toString(36)); here    *)
(* they are drawn from finite pools, 0 standing for "no id".  Dates and    *)
(* the derived counters of an entry are not modelled.                      *)
(*                                                                         *)
(* Every operation takes a fault: the one external call (a store write,    *)
(* the tokenizer) that rejects during the operation.  Store reads are      *)
(* taken to succeed.                                                       *)
(***************************************************************************)
EXTENDS Integers, Sequences, FiniteSets, TLC

VARIABLES entries, words, last, log, passes, filterInput, filterOutput,
          batch, marks, editor, saveTimeouts, timers, saves

vars == <<entries, words, last, log, passes, filterInput, filterOutput,
          batch, marks, editor, saveTimeouts, timers, saves>>

\* The analysis passes in flight, and the input and the output of the filter.
stepVars == <<passes>>

filterVars == <<filterInput, filterOutput>>

\* The batch in progress (SpecBatch), the markEntryAs... calls in flight
\* (SpecMarks) and the editor with its auto-save timers (SpecAutoSave).
batchVars == <<batch>>

markVars == <<marks>>

timerVars == <<editor, saveTimeouts, timers, saves>>

-----------------------------------------------------------------------------
(* Bounds *)

MaxFreq == 2
MaxUpserts == 4

EntryIds == {1, 2}
NoId == 0

-----------------------------------------------------------------------------
(* Characters and the tokenizer's lexicon *)

Neko == <<29483>>
Inu == <<29356>>
No == <<12398>>
Ne == <<12397>>
Space == <<32>>
Watashi == <<31169>>
Ga == <<12364>>
Kawaii == <<21487, 24859, 12356>>
Desu == <<12391, 12377>>

Meishi == "meishi"
Joshi == "joshi"
Jodoushi == "jodoushi"
Kigou == "kigou"
Doushi == "doushi"
Keiyoushi == "keiyoushi"
Fukushi == "fukushi"

Lexicon ==
  {[word |-> Neko, pos |-> Meishi, reading |-> <<12493, 12467>>],
   [word |-> Inu, pos |-> Meishi, reading |-> <<12452, 12492>>],
   [word |-> No, pos |-> Joshi, reading |-> <<12494>>],
   [word |-> Ne, pos |-> Meishi, reading |-> <<12493>>],
   [word |-> Space, pos |-> Kigou, reading |-> <<>>],
   [word |-> Watashi, pos |-> Meishi, reading |-> <<12527, 12479, 12471>>],
   [word |-> Ga, pos |-> Joshi, reading |-> <<12460>>],
   [word |-> Kawaii, pos |-> Keiyoushi, reading |-> <<12459, 12527, 12452, 12452>>],
   [word |-> Desu, pos |-> Jodoushi, reading |-> <<12487, 12473>>]}

Token(w) == CHOOSE t \in Lexicon : t.word = w

Contents == {<<>>, <<Neko, No>>, <<Neko, Ne, Space, Neko>>}

RECURSIVE Flatten(_)
Flatten(ss) == IF ss = <<>> THEN <<>> ELSE Head(ss) \o Flatten(Tail(ss))

ContentText(content) == Flatten(content)

Range(s) == {s[i] : i \in DOMAIN s}

-----------------------------------------------------------------------------
(* MecabService *)

isHiragana(char) == char[1] >= 12352 /\ char[1] <= 12447

isKatakana(char) == char[1] >= 12448 /\ char[1] <= 12543

isKanji(char) == char[1] >= 19968 /\ char[1] <= 40879

katakanaToHiragana(katakana) ==
  [i \in DOMAIN katakana |->
     IF katakana[i] >= 12449 /\ katakana[i] <= 12534
     THEN katakana[i] - 96
     ELSE katakana[i]]

MecabQuery(content) == [i \in DOMAIN content |-> Token(content[i])]

extractContentWords(tokens) ==
  LET keep(token) ==
        IF token.pos = Joshi THEN FALSE
        ELSE IF token.pos = Jodoushi THEN FALSE
        ELSE IF token.pos = Kigou THEN FALSE
        ELSE IF Len(token.word) = 1 /\ isHiragana(token.word) THEN FALSE
        ELSE token.pos \in {Meishi, Doushi, Keiyoushi, Fukushi}
  IN SelectSeq(tokens, keep)

-----------------------------------------------------------------------------
(* Faults: the external call that rejects during one operation *)

NoFault == [kind |-> "none", id |-> NoId, word |-> <<>>]

Fault(kind, id, word) == [kind |-> kind, id |-> id, word |-> word]

MergeFaults == {Fault("createOrUpdateWord", NoId, Neko)}

MecabFaults == {Fault("mecabInit", NoId, <<>>), Fault("mecabQuery", NoId, <<>>)}

MarkFaults(kind, ids) == {Fault(kind, id, <<>>) : id \in ids}

-----------------------------------------------------------------------------
(* StorageService: the words store *)

MaxWordRows == 5

WordIds == 1..MaxWordRows

Min(S) == CHOOSE x \in S : \A y \in S : x <= y

RECURSIVE Dedup(_)
Dedup(s) ==
  IF s = <<>> THEN <<>>
  ELSE LET front == Dedup(SubSeq(s, 1, Len(s) - 1))
           x == s[Len(s)]
       IN IF x \in Range(front) THEN front ELSE Append(front, x)

getWordByText(ws, wordText) ==
  LET hits == {id \in DOMAIN ws : ws[id].word = wordText}
  IN IF hits = {} THEN NoId ELSE Min(hits)

NewWordId(ws) == Min(WordIds \ DOMAIN ws)

\* Variant: the update replaces entryIds by the caller's instead of uniting.
createOrUpdateWordReplaceIds(ws, word) ==
  LET existingWord == getWordByText(ws, word.word)
  IN IF existingWord # NoId
     THEN [ws EXCEPT ![existingWord] =
             [@ EXCEPT !.frequency = @ + 1, !.entryIds = word.entryIds]]
     ELSE LET id == NewWordId(ws)
          IN [i \in DOMAIN ws \cup {id} |->
                IF i = id
                THEN [word |-> word.word, reading |-> word.reading,
                      frequency |-> 1, entryIds |-> word.entryIds]
                ELSE ws[i]]

\* Variant: the update appends the caller's entryIds without the Set.
createOrUpdateWordNoSet(ws, word) ==
  LET existingWord == getWordByText(ws, word.word)
  IN IF existingWord # NoId
     THEN [ws EXCEPT ![existingWord] =
             [@ EXCEPT !.frequency = @ + 1,
                       !.entryIds = @ \o word.entryIds]]
     ELSE LET id == NewWordId(ws)
          IN [i \in DOMAIN ws \cup {id} |->
                IF i = id
                THEN [word |-> word.word, reading |-> word.reading,
                      frequency |-> 1, entryIds |-> word.entryIds]
                ELSE ws[i]]

createOrUpdateWord(ws, word) ==
  LET existingWord == getWordByText(ws, word.word)
  IN IF existingWord # NoId
     THEN [ws EXCEPT ![existingWord] =
             [@ EXCEPT !.frequency = @ + 1,
                       !.entryIds = Dedup(@ \o word.entryIds)]]
     ELSE LET id == NewWordId(ws)
          IN [i \in DOMAIN ws \cup {id} |->
                IF i = id
                THEN [word |-> word.word, reading |-> word.reading,
                      frequency |-> 1, entryIds |-> word.entryIds]
                ELSE ws[i]]

\* The write of createOrUpdateWord, made from the row that getWordByText
\* returned to it (existingWord is the id of that row, NoId for none).
\* Variant: the update is computed from the row as it is stored at the write.
putWordFromStore(ws, existingWord, row, word) ==
  IF existingWord # NoId /\ existingWord \in DOMAIN ws
  THEN [ws EXCEPT ![existingWord] =
          [@ EXCEPT !.frequency = @ + 1,
                    !.entryIds = Dedup(@ \o word.entryIds)]]
  ELSE LET id == NewWordId(ws)
       IN [i \in DOMAIN ws \cup {id} |->
             IF i = id
             THEN [word |-> word.word, reading |-> word.reading,
                   frequency |-> 1, entryIds |-> word.entryIds]
             ELSE ws[i]]

\* Variant: the write of an existing word takes the caller's reading.
putWordCallerReading(ws, existingWord, row, word) ==
  IF existingWord # NoId
  THEN [i \in DOMAIN ws \cup {existingWord} |->
          IF i = existingWord
          THEN [row EXCEPT !.frequency = @ + 1,
                           !.reading = word.reading,
                           !.entryIds = Dedup(@ \o word.entryIds)]
          ELSE ws[i]]
  ELSE LET id == NewWordId(ws)
       IN [i \in DOMAIN ws \cup {id} |->
             IF i = id
             THEN [word |-> word.word, reading |-> word.reading,
                   frequency |-> 1, entryIds |-> word.entryIds]
             ELSE ws[i]]

\* Variant: the write of an existing word keeps the snapshot's frequency.
putWordKeepFrequency(ws, existingWord, row, word) ==
  IF existingWord # NoId
  THEN [i \in DOMAIN ws \cup {existingWord} |->
          IF i = existingWord
          THEN [row EXCEPT !.entryIds = Dedup(@ \o word.entryIds)]
          ELSE ws[i]]
  ELSE LET id == NewWordId(ws)
       IN [i \in DOMAIN ws \cup {id} |->
             IF i = id
             THEN [word |-> word.word, reading |-> word.reading,
                   frequency |-> 1, entryIds |-> word.entryIds]
             ELSE ws[i]]

putWord(ws, existingWord, row, word) ==
  IF existingWord # NoId
  THEN [i \in DOMAIN ws \cup {existingWord} |->
          IF i = existingWord
          THEN [row EXCEPT !.frequency = @ + 1,
                           !.entryIds = Dedup(@ \o word.entryIds)]
          ELSE ws[i]]
  ELSE LET id == NewWordId(ws)
       IN [i \in DOMAIN ws \cup {id} |->
             IF i = id
             THEN [word |-> word.word, reading |-> word.reading,
                   frequency |-> 1, entryIds |-> word.entryIds]
             ELSE ws[i]]

deleteWord(ws, id) == [i \in DOMAIN ws \ {id} |-> ws[i]]

RECURSIVE getAllWords(_)
getAllWords(ws) ==
  IF DOMAIN ws = {} THEN <<>>
  ELSE LET top == {i \in DOMAIN ws :
                     \A j \in DOMAIN ws : ws[j].frequency <= ws[i].frequency}
           first == Min(top)
       IN <<first>> \o getAllWords(deleteWord(ws, first))

-----------------------------------------------------------------------------
(* StorageService: the entries store *)

updateEntry(es, id, entry) ==
  [i \in DOMAIN es \cup {id} |-> IF i = id THEN entry ELSE es[i]]

createEntry(es, id, content, analyzed) ==
  updateEntry(es, id, [content |-> content, analyzed |-> analyzed])

deleteEntry(es, id) == [i \in DOMAIN es \ {id} |-> es[i]]

\* Variant: the entries without content are left out.
getUnanalyzedEntriesWithContent(es, order) ==
  SelectSeq(order, LAMBDA id : ~es[id].analyzed /\ es[id].content # <<>>)

getUnanalyzedEntries(es, order) ==
  SelectSeq(order, LAMBDA id : ~es[id].analyzed)

markEntry(es, entryId, flag, fault, kind) ==
  IF entryId \notin DOMAIN es
  THEN [entries |-> es, err |-> "Entry not found"]
  ELSE IF fault.kind = kind /\ fault.id = entryId
  THEN [entries |-> es, err |-> "StorageError"]
  ELSE [entries |-> updateEntry(es, entryId, [es[entryId] EXCEPT !.analyzed = flag]),
        err |-> "ok"]

markEntryAsAnalyzed(es, entryId, fault) ==
  markEntry(es, entryId, TRUE, fault, "markEntryAsAnalyzed")

markEntryAsUnanalyzed(es, entryId, fault) ==
  markEntry(es, entryId, FALSE, fault, "markEntryAsUnanalyzed")

-----------------------------------------------------------------------------
(* WordExtractorService *)

IsBlank(text) == \A i \in DOMAIN text : text[i] = 32

IsJapaneseChar(c) ==
  \/ c >= 12352 /\ c <= 12447
  \/ c >= 12448 /\ c <= 12543
  \/ c >= 19968 /\ c <= 40879

RECURSIVE JapaneseRuns(_, _)
JapaneseRuns(text, cur) ==
  LET flush == IF cur = <<>> THEN <<>> ELSE <<cur>>
  IN IF text = <<>> THEN flush
     ELSE IF IsJapaneseChar(Head(text))
     THEN JapaneseRuns(Tail(text), Append(cur, Head(text)))
     ELSE flush \o JapaneseRuns(Tail(text), <<>>)

isValidJapaneseWord(word) ==
  IF Len(word) = 1 /\ isHiragana(word) THEN FALSE
  ELSE (\E i \in DOMAIN word : isKanji(<<word[i]>>)) \/ Len(word) >= 2

extractJapaneseWords(text) ==
  Dedup(SelectSeq(JapaneseRuns(text, <<>>), isValidJapaneseWord))

convertToHiragana(text) == katakanaToHiragana(text)

\* The loop over the words of one extraction: a rejected createOrUpdateWord
\* is caught per word and the loop goes on with the next word.
RECURSIVE trackWords(_, _, _, _)
trackWords(ws, entryId, toks, fault) ==
  IF toks = <<>> THEN ws
  ELSE LET token == Head(toks)
           merged ==
             IF fault.kind = "createOrUpdateWord" /\ fault.word = token.word
             THEN ws
             ELSE createOrUpdateWord(ws,
                    [word |-> token.word, reading |-> token.reading,
                     frequency |-> 1, entryIds |-> <<entryId>>])
       IN trackWords(merged, entryId, Tail(toks), fault)

extractAndTrackWordsLegacy(ws, entryId, content, fault) ==
  LET japaneseWords == extractJapaneseWords(ContentText(content))
      toks == [i \in DOMAIN japaneseWords |->
                 [word |-> japaneseWords[i],
                  reading |-> convertToHiragana(japaneseWords[i])]]
  IN trackWords(ws, entryId, toks, fault)

\* Variant: the auxiliary verbs are tracked with the content words.
extractAndTrackWordsWithAuxiliaries(ws, entryId, content, fault) ==
  IF IsBlank(ContentText(content)) THEN ws
  ELSE LET tokens == MecabQuery(content)
           contentWords ==
             SelectSeq(tokens,
                       LAMBDA t : t.pos = Jodoushi \/ t \in Range(extractContentWords(tokens)))
           toks == [i \in DOMAIN contentWords |->
                      [word |-> contentWords[i].word,
                       reading |-> katakanaToHiragana(contentWords[i].reading)]]
       IN trackWords(ws, entryId, toks, fault)

\* Variant: a rejected merge undoes the merges of the whole extraction.
extractAndTrackWordsAllOrNothing(ws, entryId, content, fault) ==
  IF IsBlank(ContentText(content)) THEN ws
  ELSE LET contentWords == extractContentWords(MecabQuery(content))
           toks == [i \in DOMAIN contentWords |->
                      [word |-> contentWords[i].word,
                       reading |-> katakanaToHiragana(contentWords[i].reading)]]
       IN IF fault.kind = "createOrUpdateWord"
               /\ \E i \in DOMAIN toks : toks[i].word = fault.word
          THEN ws
          ELSE trackWords(ws, entryId, toks, fault)

\* Variant: a word is merged once per entry, however often it occurs.
extractAndTrackWordsOnce(ws, entryId, content, fault) ==
  IF IsBlank(ContentText(content)) THEN ws
  ELSE LET contentWords == extractContentWords(MecabQuery(content))
           toks == [i \in DOMAIN contentWords |->
                      [word |-> contentWords[i].word,
                       reading |-> katakanaToHiragana(contentWords[i].reading),
                       index |-> i]]
           firsts == SelectSeq(toks,
                       LAMBDA t : \A j \in 1..(t.index - 1) : toks[j].word # t.word)
       IN trackWords(ws, entryId, firsts, fault)

extractAndTrackWords(ws, entryId, content, fault) ==
  IF IsBlank(ContentText(content)) THEN ws
  ELSE IF fault.kind = "mecabInit"
  THEN extractAndTrackWordsLegacy(ws, entryId, content, fault)
  ELSE LET tokens == IF fault.kind = "mecabQuery" THEN <<>>
                     ELSE MecabQuery(content)
           contentWords == extractContentWords(tokens)
           toks == [i \in DOMAIN contentWords |->
                      [word |-> contentWords[i].word,
                       reading |->
                         IF contentWords[i].reading # <<>>
                         THEN katakanaToHiragana(contentWords[i].reading)
                         ELSE convertToHiragana(contentWords[i].word)]]
       IN trackWords(ws, entryId, toks, fault)

-----------------------------------------------------------------------------
(* AnalysisService *)

Ok == "ok"

\* Variant: no skip of an entry that is already analyzed.
analyzeEntryNoSkip(es, ws, entryId, force, fault) ==
  IF entryId \notin DOMAIN es
  THEN [entries |-> es, words |-> ws, err |-> "Entry with id not found"]
  ELSE LET tracked == extractAndTrackWords(ws, entryId, es[entryId].content, fault)
           marked == markEntryAsAnalyzed(es, entryId, fault)
       IN [entries |-> marked.entries, words |-> tracked, err |-> marked.err]

\* Variant: the skip ignores force.
analyzeEntryIgnoreForce(es, ws, entryId, force, fault) ==
  IF entryId \notin DOMAIN es
  THEN [entries |-> es, words |-> ws, err |-> "Entry with id not found"]
  ELSE IF es[entryId].analyzed
  THEN [entries |-> es, words |-> ws, err |-> Ok]
  ELSE LET tracked == extractAndTrackWords(ws, entryId, es[entryId].content, fault)
           marked == markEntryAsAnalyzed(es, entryId, fault)
       IN [entries |-> marked.entries, words |-> tracked, err |-> marked.err]

\* Variant: a missing entry is passed over in silence.
analyzeEntryMissingOk(es, ws, entryId, force, fault) ==
  IF entryId \notin DOMAIN es
  THEN [entries |-> es, words |-> ws, err |-> Ok]
  ELSE IF es[entryId].analyzed /\ ~force
  THEN [entries |-> es, words |-> ws, err |-> Ok]
  ELSE LET tracked == extractAndTrackWords(ws, entryId, es[entryId].content, fault)
           marked == markEntryAsAnalyzed(es, entryId, fault)
       IN [entries |-> marked.entries, words |-> tracked, err |-> marked.err]

analyzeEntry(es, ws, entryId, force, fault) ==
  IF entryId \notin DOMAIN es
  THEN [entries |-> es, words |-> ws, err |-> "Entry with id not found"]
  ELSE IF es[entryId].analyzed /\ ~force
  THEN [entries |-> es, words |-> ws, err |-> Ok]
  ELSE LET tracked == extractAndTrackWords(ws, entryId, es[entryId].content, fault)
           marked == markEntryAsAnalyzed(es, entryId, fault)
       IN [entries |-> marked.entries, words |-> tracked, err |-> marked.err]

RECURSIVE analyzeUnanalyzedLoop(_, _, _, _)
analyzeUnanalyzedLoop(es, ws, unanalyzedEntries, fault) ==
  IF unanalyzedEntries = <<>> THEN [entries |-> es, words |-> ws, err |-> Ok]
  ELSE LET r == analyzeEntry(es, ws, Head(unanalyzedEntries), FALSE, fault)
       IN IF r.err # Ok THEN r
          ELSE analyzeUnanalyzedLoop(r.entries, r.words, Tail(unanalyzedEntries), fault)

analyzeUnanalyzedEntries(es, ws, order, fault) ==
  analyzeUnanalyzedLoop(es, ws, getUnanalyzedEntries(es, order), fault)

RECURSIVE forceReanalyzeLoop(_, _, _, _)
forceReanalyzeLoop(es, ws, allEntries, fault) ==
  IF allEntries = <<>> THEN [entries |-> es, words |-> ws, err |-> Ok]
  ELSE LET unmarked == markEntryAsUnanalyzed(es, Head(allEntries), fault)
       IN IF unmarked.err # Ok
          THEN [entries |-> es, words |-> ws, err |-> unmarked.err]
          ELSE LET r == analyzeEntry(unmarked.entries, ws, Head(allEntries), TRUE, fault)
               IN IF r.err # Ok THEN r
                  ELSE forceReanalyzeLoop(r.entries, r.words, Tail(allEntries), fault)

RECURSIVE deleteEach(_, _, _)
deleteEach(ws, ids, fault) ==
  IF ids = <<>> THEN [words |-> ws, err |-> Ok]
  ELSE IF fault.kind = "deleteWord" /\ fault.id = Head(ids)
  THEN [words |-> ws, err |-> "StorageError"]
  ELSE deleteEach(deleteWord(ws, Head(ids)), Tail(ids), fault)

clearAllWords(ws, fault) == deleteEach(ws, getAllWords(ws), fault)

forceReanalyzeAll(es, ws, order, fault) ==
  LET cleared == clearAllWords(ws, fault)
  IN IF cleared.err # Ok
     THEN [entries |-> es, words |-> cleared.words, err |-> cleared.err]
     ELSE forceReanalyzeLoop(es, cleared.words, order, fault)

\* Variant: the catch rethrows.
analyzeAfterSaveRethrow(es, ws, entryId, fault) ==
  LET unmarked == markEntryAsUnanalyzed(es, entryId, fault)
  IN IF unmarked.err # Ok
     THEN [entries |-> es, words |-> ws, err |-> unmarked.err]
     ELSE analyzeEntry(unmarked.entries, ws, entryId, TRUE, fault)

analyzeAfterSave(es, ws, entryId, fault) ==
  LET unmarked == markEntryAsUnanalyzed(es, entryId, fault)
  IN IF unmarked.err # Ok
     THEN [entries |-> es, words |-> ws, err |-> Ok]
     ELSE LET r == analyzeEntry(unmarked.entries, ws, entryId, TRUE, fault)
          IN [entries |-> r.entries, words |-> r.words, err |-> Ok]

-----------------------------------------------------------------------------
(* AutoSaveService *)

\* Variant: a save that does not change the stored content skips the analysis.
saveEntrySkipUnchanged(es, ws, entry, newId, fault) ==
  IF fault.kind = "putEntry"
  THEN [entries |-> es, words |-> ws, err |-> "StorageError", id |-> NoId]
  ELSE IF entry.id # NoId /\ entry.id \in DOMAIN es
            /\ es[entry.id].content = entry.content
  THEN [entries |-> es, words |-> ws, err |-> Ok, id |-> entry.id]
  ELSE LET id == IF entry.id # NoId THEN entry.id ELSE newId
           saved == IF entry.id # NoId
                    THEN updateEntry(es, entry.id,
                           [content |-> entry.content, analyzed |-> entry.analyzed])
                    ELSE createEntry(es, newId, entry.content, FALSE)
           r == analyzeAfterSave(saved, ws, id, fault)
       IN [entries |-> r.entries, words |-> r.words, err |-> r.err, id |-> id]

saveEntry(es, ws, entry, newId, fault) ==
  IF fault.kind = "putEntry"
  THEN [entries |-> es, words |-> ws, err |-> "StorageError", id |-> NoId]
  ELSE LET id == IF entry.id # NoId THEN entry.id ELSE newId
           saved == IF entry.id # NoId
                    THEN updateEntry(es, entry.id,
                           [content |-> entry.content, analyzed |-> entry.analyzed])
                    ELSE createEntry(es, newId, entry.content, FALSE)
           r == analyzeAfterSave(saved, ws, id, fault)
       IN [entries |-> r.entries, words |-> r.words, err |-> r.err, id |-> id]

-----------------------------------------------------------------------------
(* The state machine *)

\* The orders in which a store scan can return the stored entries: ids are
\* random strings and creation dates are not modelled.
Orders(es) ==
  {o \in UNION {[1..n -> DOMAIN es] : n \in {Cardinality(DOMAIN es)}} :
     \A i, j \in DOMAIN o : i # j => o[i] # o[j]}

\* An analysis pass that is not running.
Passes == {1, 2}

Idle == [pc |-> "idle", id |-> NoId, force |-> FALSE, toks |-> <<>>,
         existingWord |-> NoId, row |-> <<>>, merged |-> <<>>, skipped |-> <<>>]

NoBatch == [kind |-> "none", queue |-> <<>>]

\* The entry object of an editor that is not open.
NoEntry == [id |-> NoId, content |-> <<>>, analyzed |-> FALSE]

Done(op, id, force, fault, content, err) ==
  [op |-> op, id |-> id, force |-> force, fault |-> fault,
   content |-> content, err |-> err]

\* The frequency counters are capped, and of the faults that no call of an
\* operation runs into only NoFault is kept: they are the same operation.
Bounded(r, r0, fault) ==
  /\ \A i \in DOMAIN r.words : r.words[i].frequency <= MaxFreq
  /\ fault # NoFault => r # r0

Init ==
  /\ entries = <<>>
  /\ words = <<>>
  /\ last = Done("init", NoId, FALSE, NoFault, <<>>, Ok)
  /\ log = <<>>
  /\ passes = [p \in Passes |-> Idle]
  /\ filterInput = <<>>
  /\ filterOutput = <<>>
  /\ batch = NoBatch
  /\ marks = <<>>
  /\ editor = NoEntry
  /\ saveTimeouts = <<>>
  /\ timers = <<>>
  /\ saves = <<>>

AnalyzeEntry(id, force, fault) ==
  /\ \E r \in {analyzeEntry(entries, words, id, force, fault)} :
       /\ Bounded(r, analyzeEntry(entries, words, id, force, NoFault), fault)
       /\ entries' = r.entries
       /\ words' = r.words
       /\ last' = Done("analyzeEntry", id, force, fault, <<>>, r.err)
  /\ UNCHANGED <<log, stepVars, filterVars, batchVars, markVars, timerVars>>

AnalyzeUnanalyzedEntries(order, fault) ==
  /\ \E r \in {analyzeUnanalyzedEntries(entries, words, order, fault)} :
       /\ Bounded(r, analyzeUnanalyzedEntries(entries, words, order, NoFault), fault)
       /\ entries' = r.entries
       /\ words' = r.words
       /\ last' = Done("analyzeUnanalyzedEntries", NoId, FALSE, fault, <<>>, r.err)
  /\ UNCHANGED <<log, stepVars, filterVars, batchVars, markVars, timerVars>>

ForceReanalyzeAll(order, fault) ==
  /\ \E r \in {forceReanalyzeAll(entries, words, order, fault)} :
       /\ Bounded(r, forceReanalyzeAll(entries, words, order, NoFault), fault)
       /\ entries' = r.entries
       /\ words' = r.words
       /\ last' = Done("forceReanalyzeAll", NoId, TRUE, fault, <<>>, r.err)
  /\ UNCHANGED <<log, stepVars, filterVars, batchVars, markVars, timerVars>>

AnalyzeAfterSave(id, fault) ==
  /\ \E r \in {analyzeAfterSave(entries, words, id, fault)} :
       /\ Bounded(r, analyzeAfterSave(entries, words, id, NoFault), fault)
       /\ entries' = r.entries
       /\ words' = r.words
       /\ last' = Done("analyzeAfterSave", id, TRUE, fault, <<>>, r.err)
  /\ UNCHANGED <<log, stepVars, filterVars, batchVars, markVars, timerVars>>

SaveEntry(entry, newId, fault) ==
  /\ \E r \in {saveEntry(entries, words, entry, newId, fault)} :
       /\ Bounded(r, saveEntry(entries, words, entry, newId, NoFault), fault)
       /\ entries' = r.entries
       /\ words' = r.words
       /\ last' = Done("saveEntry", r.id, TRUE, fault, entry.content, r.err)
  /\ UNCHANGED <<log, stepVars, filterVars, batchVars, markVars, timerVars>>

CreateNewEntry(newId) ==
  /\ entries' = createEntry(entries, newId, <<>>, FALSE)
  /\ last' = Done("createEntry", newId, FALSE, NoFault, <<>>, Ok)
  /\ UNCHANGED <<words, log, stepVars, filterVars, batchVars, markVars, timerVars>>

DeleteEntry(id) ==
  /\ entries' = deleteEntry(entries, id)
  /\ last' = Done("deleteEntry", id, FALSE, NoFault, <<>>, Ok)
  /\ UNCHANGED <<words, log, stepVars, filterVars, batchVars, markVars, timerVars>>

DeleteWord(id) ==
  /\ words' = deleteWord(words, id)
  /\ last' = Done("deleteWord", id, FALSE, NoFault, <<>>, Ok)
  /\ UNCHANGED <<entries, log, stepVars, filterVars, batchVars, markVars, timerVars>>

ClearAllData ==
  /\ entries' = <<>>
  /\ words' = <<>>
  /\ last' = Done("clearAllData", NoId, FALSE, NoFault, <<>>, Ok)
  /\ UNCHANGED <<log, stepVars, filterVars, batchVars, markVars, timerVars>>

EntryFaults(ids) ==
  {NoFault} \cup MergeFaults \cup MarkFaults("markEntryAsAnalyzed", ids)

SaveFaults(id) ==
  EntryFaults({id}) \cup MarkFaults("markEntryAsUnanalyzed", {id})
    \cup {Fault("putEntry", NoId, <<>>)}

\* The entry handed to a save of a stored entry is the editor's copy: it
\* carries analyzed = false from its creation, or the flag it was loaded with.
Next ==
  \/ \E id \in EntryIds, force \in BOOLEAN :
       \E fault \in EntryFaults({id}) : AnalyzeEntry(id, force, fault)
  \/ \E order \in Orders(entries), fault \in EntryFaults(DOMAIN entries) :
       AnalyzeUnanalyzedEntries(order, fault)
  \/ \E order \in Orders(entries),
        fault \in EntryFaults(DOMAIN entries)
                    \cup MarkFaults("markEntryAsUnanalyzed", DOMAIN entries)
                    \cup MarkFaults("deleteWord", DOMAIN words) :
       ForceReanalyzeAll(order, fault)
  \/ \E id \in EntryIds :
       \E fault \in EntryFaults({id}) \cup MarkFaults("markEntryAsUnanalyzed", {id}) :
         AnalyzeAfterSave(id, fault)
  \/ \E id \in DOMAIN entries, content \in Contents :
       \E analyzed \in {FALSE, entries[id].analyzed}, fault \in SaveFaults(id) :
         SaveEntry([id |-> id, content |-> content, analyzed |-> analyzed], NoId, fault)
  \/ \E newId \in EntryIds \ DOMAIN entries, content \in Contents :
       \E fault \in SaveFaults(newId) :
         SaveEntry([id |-> NoId, content |-> content, analyzed |-> FALSE], newId, fault)
  \/ \E newId \in EntryIds \ DOMAIN entries : CreateNewEntry(newId)
  \/ \E id \in DOMAIN entries : DeleteEntry(id)
  \/ \E id \in DOMAIN words : DeleteWord(id)
  \/ ClearAllData

Spec == Init /\ [][Next]_vars

-----------------------------------------------------------------------------
(* The save path on its own: entries are created and saved again, with no  *)
(* failure of the store, and words are deleted by the user.                *)

NextSaves ==
  \/ \E id \in DOMAIN entries, content \in Contents :
       \E analyzed \in {FALSE, entries[id].analyzed} :
         SaveEntry([id |-> id, content |-> content, analyzed |-> analyzed], NoId, NoFault)
  \/ \E newId \in EntryIds \ DOMAIN entries, content \in Contents :
       SaveEntry([id |-> NoId, content |-> content, analyzed |-> FALSE], newId, NoFault)
  \/ \E id \in DOMAIN entries : DeleteEntry(id)
  \/ \E id \in DOMAIN words : DeleteWord(id)

SpecSaves == Init /\ [][NextSaves]_vars

\* ---------------------------------------------------------------------------
\* createEntry as a storage operation of its own: the caller's object may
\* carry an analyzed flag, which is stored when present (analyzed ?? false).
CreateEntry(newId, entry) ==
  /\ entries' = createEntry(entries, newId, entry.content,
                            IF "analyzed" \in DOMAIN entry
                            THEN entry.analyzed ELSE FALSE)
  /\ last' = Done("createEntry", newId, FALSE, NoFault, entry.content, Ok)
  /\ UNCHANGED <<words, log, stepVars, filterVars, batchVars, markVars, timerVars>>

NextCreate ==
  \/ \E newId \in EntryIds \ DOMAIN entries, content \in Contents :
       CreateEntry(newId, [content |-> content])
  \/ \E newId \in EntryIds \ DOMAIN entries, content \in Contents :
       \E analyzed \in BOOLEAN :
         CreateEntry(newId, [content |-> content, analyzed |-> analyzed])
  \/ \E id \in DOMAIN entries, content \in Contents :
       \E analyzed \in {FALSE, entries[id].analyzed} :
         SaveEntry([id |-> id, content |-> content, analyzed |-> analyzed], NoId, NoFault)
  \/ \E id \in DOMAIN entries : DeleteEntry(id)

SpecCreate == Init /\ [][NextCreate]_vars

\* ---------------------------------------------------------------------------
\* The Save button of the entry editor: handleSave awaits forceSave(entry),
\* which stores and analyzes the entry, then calls the page's onSave handler
\* (handleEntrySave), which extracts and tracks the words of the saved entry.
MaxSaveFreq == 4

handleEntrySave(ws, savedEntry) ==
  IF IsBlank(ContentText(savedEntry.content)) THEN ws
  ELSE extractAndTrackWords(ws, savedEntry.id, savedEntry.content, NoFault)

HandleSave(entry, newId) ==
  /\ \E r \in {saveEntry(entries, words, entry, newId, NoFault)} :
       \E ws \in {handleEntrySave(r.words, [id |-> r.id, content |-> entry.content])} :
         /\ \A i \in DOMAIN ws : ws[i].frequency <= MaxSaveFreq
         /\ entries' = r.entries
         /\ words' = ws
         /\ last' = Done("handleSave", r.id, FALSE, NoFault, entry.content, r.err)
  /\ UNCHANGED <<log, stepVars, filterVars, batchVars, markVars, timerVars>>

NextUserSave ==
  \/ \E id \in DOMAIN entries, content \in Contents :
       \E analyzed \in {FALSE, entries[id].analyzed} :
         HandleSave([id |-> id, content |-> content, analyzed |-> analyzed], NoId)
  \/ \E newId \in EntryIds \ DOMAIN entries, content \in Contents :
       HandleSave([id |-> NoId, content |-> content, analyzed |-> FALSE], newId)
  \/ \E id \in DOMAIN entries : DeleteEntry(id)
  \/ \E id \in DOMAIN words : DeleteWord(id)

SpecUserSave == Init /\ [][NextUserSave]_vars

-----------------------------------------------------------------------------
(* The merge engine on its own: upserts and deletions on the words store,  *)
(* with the upserts made since a text was last absent kept in log.         *)

MergeTexts == {Neko, Inu}

Upsert(wordText, sourceEntryId) ==
  /\ Len(log) < MaxUpserts
  /\ words' = createOrUpdateWord(words,
                [word |-> wordText, reading |-> katakanaToHiragana(Token(wordText).reading),
                 frequency |-> 1, entryIds |-> <<sourceEntryId>>])
  /\ log' = Append(log, [word |-> wordText, entryId |-> sourceEntryId])
  /\ UNCHANGED <<entries, last, stepVars, filterVars, batchVars, markVars, timerVars>>

RemoveWord(id) ==
  /\ words' = deleteWord(words, id)
  /\ log' = SelectSeq(log, LAMBDA u : u.word # words[id].word)
  /\ UNCHANGED <<entries, last, stepVars, filterVars, batchVars, markVars, timerVars>>

NextMerge ==
  \/ \E wordText \in MergeTexts, sourceEntryId \in EntryIds :
       Upsert(wordText, sourceEntryId)
  \/ \E id \in DOMAIN words : RemoveWord(id)

SpecMerge == Init /\ [][NextMerge]_vars

-----------------------------------------------------------------------------
(* The extraction pipeline on a sentence, with the tokenizer up, failing   *)
(* to initialise, or failing on the query.                                 *)

Sentence == <<Watashi, No, Inu, Ga, Kawaii, Desu>>

SentenceIds == {1}

SentenceFaults ==
  {NoFault} \cup MecabFaults \cup {Fault("createOrUpdateWord", NoId, Kawaii)}

NextTokenizer ==
  \/ \E id \in SentenceIds, force \in BOOLEAN, fault \in SentenceFaults :
       AnalyzeEntry(id, force, fault)
  \/ \E newId \in SentenceIds \ DOMAIN entries, content \in {<<>>, Sentence} :
       \E fault \in SentenceFaults \cup MarkFaults("markEntryAsAnalyzed", {newId}) :
         SaveEntry([id |-> NoId, content |-> content, analyzed |-> FALSE], newId, fault)
  \/ \E id \in DOMAIN entries : DeleteEntry(id)
  \/ \E id \in DOMAIN words : DeleteWord(id)

SpecTokenizer == Init /\ [][NextTokenizer]_vars

-----------------------------------------------------------------------------
(* Analysis passes step by step: every await of analyzeEntry,              *)
(* extractAndTrackWords and createOrUpdateWord is a step of its own, two   *)
(* passes run interleaved, a store write of a word can reject, and the     *)
(* process can stop between any two steps.  The content of the entries is  *)
(* not edited while the passes run.                                        *)

StepIds == {1}

StepEntries ==
  [id \in StepIds |-> [content |-> <<Neko, No, Inu>>, analyzed |-> FALSE]]

MaxStepRows == 3
MaxStepFreq == 3

Resting == {"idle", "done", "stopped"}

InitSteps ==
  /\ entries = StepEntries
  /\ words = <<>>
  /\ last = Done("init", NoId, FALSE, NoFault, <<>>, Ok)
  /\ log = <<>>
  /\ passes = [p \in Passes |-> Idle]
  /\ filterInput = <<>>
  /\ filterOutput = <<>>
  /\ batch = NoBatch
  /\ marks = <<>>
  /\ editor = NoEntry
  /\ saveTimeouts = <<>>
  /\ timers = <<>>
  /\ saves = <<>>

\* Variant: the words are taken from the last to the first.
WordsToTrackReversed(entryId, content) ==
  LET contentWords == extractContentWords(MecabQuery(content))
      n == Len(contentWords)
  IN [i \in DOMAIN contentWords |->
        [word |-> contentWords[n + 1 - i].word,
         reading |-> katakanaToHiragana(contentWords[n + 1 - i].reading),
         frequency |-> 1, entryIds |-> <<entryId>>]]

WordsToTrack(entryId, content) ==
  LET contentWords == extractContentWords(MecabQuery(content))
  IN [i \in DOMAIN contentWords |->
        [word |-> contentWords[i].word,
         reading |-> katakanaToHiragana(contentWords[i].reading),
         frequency |-> 1, entryIds |-> <<entryId>>]]

AfterWord(toks) == IF Tail(toks) = <<>> THEN "mark" ELSE "getWordByText"

\* analyzeAfterSave, and one round of the loop of forceReanalyzeAll: the
\* entry is marked Unanalyzed, then analyzeEntry(id, true) is called.
StartAnalyzeAfterSave(p, id) ==
  /\ passes[p].pc \in Resting
  /\ entries' = markEntryAsUnanalyzed(entries, id, NoFault).entries
  /\ passes' = [passes EXCEPT ![p] =
                  [Idle EXCEPT !.pc = "getEntry", !.id = id, !.force = TRUE]]
  /\ UNCHANGED <<words, last, log, filterVars, batchVars, markVars, timerVars>>

\* One round of the loop of analyzeUnanalyzedEntries: analyzeEntry(id, false)
\* for an entry that getUnanalyzedEntries returned.
StartAnalyzeEntry(p, id) ==
  /\ passes[p].pc \in Resting
  /\ ~entries[id].analyzed
  /\ passes' = [passes EXCEPT ![p] = [Idle EXCEPT !.pc = "getEntry", !.id = id]]
  /\ UNCHANGED <<entries, words, last, log, filterVars, batchVars, markVars, timerVars>>

GetEntry(p) ==
  /\ passes[p].pc = "getEntry"
  /\ LET entry == entries[passes[p].id]
         toks == WordsToTrack(passes[p].id, entry.content)
     IN passes' = [passes EXCEPT ![p] =
                     IF entry.analyzed /\ ~passes[p].force
                     THEN [Idle EXCEPT !.pc = "done"]
                     ELSE [@ EXCEPT !.toks = toks,
                                    !.pc = IF toks = <<>> THEN "mark"
                                           ELSE "getWordByText"]]
  /\ UNCHANGED <<entries, words, last, log, filterVars, batchVars, markVars, timerVars>>

GetWordByText(p) ==
  /\ passes[p].pc = "getWordByText"
  /\ LET existingWord == getWordByText(words, Head(passes[p].toks).word)
     IN passes' = [passes EXCEPT ![p] =
                     [@ EXCEPT !.existingWord = existingWord,
                               !.row = IF existingWord # NoId
                                       THEN words[existingWord] ELSE <<>>,
                               !.pc = "put"]]
  /\ UNCHANGED <<entries, words, last, log, filterVars, batchVars, markVars, timerVars>>

PutWord(p) ==
  /\ passes[p].pc = "put"
  /\ IF passes[p].existingWord # NoId
     THEN passes[p].row.frequency < MaxStepFreq
     ELSE Cardinality(DOMAIN words) < MaxStepRows
  /\ words' = putWord(words, passes[p].existingWord, passes[p].row,
                      Head(passes[p].toks))
  /\ passes' = [passes EXCEPT ![p] =
                  [@ EXCEPT !.toks = Tail(@),
                            !.merged = Append(@, Head(passes[p].toks).word),
                            !.pc = AfterWord(passes[p].toks)]]
  /\ UNCHANGED <<entries, last, log, filterVars, batchVars, markVars, timerVars>>

\* The write rejects: extractAndTrackWords catches and goes to the next word.
RejectPut(p) ==
  /\ passes[p].pc = "put"
  /\ passes' = [passes EXCEPT ![p] =
                  [@ EXCEPT !.toks = Tail(@),
                            !.skipped = Append(@, Head(passes[p].toks).word),
                            !.pc = AfterWord(passes[p].toks)]]
  /\ UNCHANGED <<entries, words, last, log, filterVars, batchVars, markVars, timerVars>>

MarkEntryAsAnalyzed(p) ==
  /\ passes[p].pc = "mark"
  /\ entries' = markEntryAsAnalyzed(entries, passes[p].id, NoFault).entries
  /\ passes' = [passes EXCEPT ![p] = [Idle EXCEPT !.pc = "done"]]
  /\ UNCHANGED <<words, last, log, filterVars, batchVars, markVars, timerVars>>

\* The process stops (the tab is closed, the page reloads).
Stop(p) ==
  /\ passes[p].pc \notin Resting
  /\ passes' = [passes EXCEPT ![p] = [Idle EXCEPT !.pc = "stopped"]]
  /\ UNCHANGED <<entries, words, last, log, filterVars, batchVars, markVars, timerVars>>

NextSteps ==
  \/ \E p \in Passes, id \in StepIds : StartAnalyzeAfterSave(p, id)
  \/ \E p \in Passes, id \in StepIds : StartAnalyzeEntry(p, id)
  \/ \E p \in Passes : GetEntry(p)
  \/ \E p \in Passes : GetWordByText(p)
  \/ \E p \in Passes : PutWord(p)
  \/ \E p \in Passes : RejectPut(p)
  \/ \E p \in Passes : MarkEntryAsAnalyzed(p)
  \/ \E p \in Passes : Stop(p)

SpecSteps == InitSteps /\ [][NextSteps]_vars

\* ---------------------------------------------------------------------------
\* Two entries that share a word, analyzed by two interleaved passes: 猫 is
\* once in entry 1 and twice in entry 2.
SharedIds == {1, 2}

SharedEntries ==
  [id \in SharedIds |->
     [content |-> IF id = 1 THEN <<Neko, No>> ELSE <<Neko, Ne, Space, Neko>>,
      analyzed |-> FALSE]]

InitShared ==
  /\ entries = SharedEntries
  /\ words = <<>>
  /\ last = Done("init", NoId, FALSE, NoFault, <<>>, Ok)
  /\ log = <<>>
  /\ passes = [p \in Passes |-> Idle]
  /\ filterInput = <<>>
  /\ filterOutput = <<>>
  /\ batch = NoBatch
  /\ marks = <<>>
  /\ editor = NoEntry
  /\ saveTimeouts = <<>>
  /\ timers = <<>>
  /\ saves = <<>>

NextShared ==
  \/ \E p \in Passes, id \in SharedIds : StartAnalyzeAfterSave(p, id)
  \/ \E p \in Passes, id \in SharedIds : StartAnalyzeEntry(p, id)
  \/ \E p \in Passes : GetEntry(p)
  \/ \E p \in Passes : GetWordByText(p)
  \/ \E p \in Passes : PutWord(p)
  \/ \E p \in Passes : RejectPut(p)
  \/ \E p \in Passes : MarkEntryAsAnalyzed(p)
  \/ \E p \in Passes : Stop(p)

SpecShared == InitShared /\ [][NextShared]_vars

\* ---------------------------------------------------------------------------
\* createOrUpdateWord called with any record, on rows that carry firstSeen
\* and a dictionary definition, with updateWordWithJishoData at any moment.
FrameReadings == {katakanaToHiragana(Token(Neko).reading), Ne}

\* The records a caller can pass: Omit<TrackedWord, 'id'>.
FrameWords ==
  {[word |-> Neko, reading |-> r, frequency |-> n, firstSeen |-> n,
    entryIds |-> <<n>>, jishoData |-> "none"] :
     r \in FrameReadings, n \in {1, 2}}

JishoData == {"definition"}

\* `const newWord = { ...word, id, frequency: 1 }; store.add(newWord)`.
addWord(ws, word) ==
  LET id == NewWordId(ws)
  IN [i \in DOMAIN ws \cup {id} |->
        IF i = id THEN [word EXCEPT !.frequency = 1] ELSE ws[i]]

updateWordWithJishoData(ws, wordId, jishoData) ==
  [ws EXCEPT ![wordId].jishoData = jishoData]

CallCreateOrUpdateWord(p, word) ==
  /\ passes[p].pc \in Resting
  /\ passes' = [passes EXCEPT ![p] =
                  [Idle EXCEPT !.pc = "getWordByText", !.toks = <<word>>]]
  /\ UNCHANGED <<entries, words, last, log, filterVars, batchVars, markVars, timerVars>>

\* The write of the call: store.put of the row read, or store.add.
WriteWord(p) ==
  /\ passes[p].pc = "put"
  /\ passes[p].toks # <<>>
  /\ IF passes[p].existingWord # NoId
     THEN /\ passes[p].row.frequency < MaxStepFreq
          /\ words' = putWord(words, passes[p].existingWord, passes[p].row,
                              Head(passes[p].toks))
     ELSE /\ Cardinality(DOMAIN words) < MaxStepRows - 1
          /\ words' = addWord(words, Head(passes[p].toks))
  /\ passes' = [passes EXCEPT ![p] = [@ EXCEPT !.pc = "done"]]
  /\ UNCHANGED <<entries, last, log, filterVars, batchVars, markVars, timerVars>>

UpdateWordWithJishoData(wordId, jishoData) ==
  /\ words' = updateWordWithJishoData(words, wordId, jishoData)
  /\ UNCHANGED <<entries, last, log, stepVars, filterVars, batchVars, markVars, timerVars>>

\* One caller at a time; the dictionary update comes from the word views.
FrameCallers == {1}

NextFrame ==
  \/ \E p \in FrameCallers, word \in FrameWords : CallCreateOrUpdateWord(p, word)
  \/ \E p \in FrameCallers : GetWordByText(p)
  \/ \E p \in FrameCallers : WriteWord(p)
  \/ \E wordId \in DOMAIN words, jishoData \in JishoData :
       UpdateWordWithJishoData(wordId, jishoData)

SpecFrame == Init /\ [][NextFrame]_vars

\* ---------------------------------------------------------------------------
\* The batches step by step: analyzeUnanalyzedEntries and forceReanalyzeAll
\* take the entries from a list and run one analysis pass for each.
BatchIds == {1, 2}

BatchEntries ==
  [id \in BatchIds |->
     [content |-> IF id = 1 THEN <<Neko, No>> ELSE <<Inu, Ne>>,
      analyzed |-> FALSE]]

\* The second entry has content, or none.
InitBatch ==
  /\ \E content \in {BatchEntries[2].content, <<>>} :
       entries = [BatchEntries EXCEPT ![2].content = content]
  /\ words = <<>>
  /\ last = Done("init", NoId, FALSE, NoFault, <<>>, Ok)
  /\ log = <<>>
  /\ passes = [p \in Passes |-> Idle]
  /\ filterInput = <<>>
  /\ filterOutput = <<>>
  /\ batch = NoBatch
  /\ marks = <<>>
  /\ editor = NoEntry
  /\ saveTimeouts = <<>>
  /\ timers = <<>>
  /\ saves = <<>>

\* Variant: the loop does not await the pass it started.
BatchMayGoOnAlways(ps) == TRUE

\* `await this.analyzeEntry(...)`: the loop goes to the next entry when the
\* pass it started has returned.
BatchMayGoOn(ps) == \A q \in Passes : ps[q].pc \in Resting

StartAnalyzeUnanalyzedEntries(order) ==
  /\ batch = NoBatch
  /\ \A q \in Passes : passes[q].pc \in Resting
  /\ batch' = [kind |-> "analyzeUnanalyzedEntries",
               queue |-> getUnanalyzedEntries(entries, order)]
  /\ passes' = [p \in Passes |-> Idle]
  /\ UNCHANGED <<entries, words, last, log, filterVars, markVars, timerVars>>

StartForceReanalyzeAll(order) ==
  /\ batch = NoBatch
  /\ \A q \in Passes : passes[q].pc \in Resting
  /\ words' = clearAllWords(words, NoFault).words
  /\ batch' = [kind |-> "forceReanalyzeAll", queue |-> order]
  /\ passes' = [p \in Passes |-> Idle]
  /\ UNCHANGED <<entries, last, log, filterVars, markVars, timerVars>>

\* One round of the for loop: the next entry of the list is handed to
\* analyzeEntry (after markEntryAsUnanalyzed in forceReanalyzeAll).
BatchRound(p) ==
  /\ batch.kind # "none"
  /\ batch.queue # <<>>
  /\ \A q \in Passes : passes[q].pc # "stopped"
  /\ BatchMayGoOn(passes)
  /\ passes[p].pc \in Resting
  /\ entries' = IF batch.kind = "forceReanalyzeAll"
                THEN markEntryAsUnanalyzed(entries, Head(batch.queue), NoFault).entries
                ELSE entries
  /\ passes' = [passes EXCEPT ![p] =
                  [Idle EXCEPT !.pc = "getEntry", !.id = Head(batch.queue),
                               !.force = (batch.kind = "forceReanalyzeAll")]]
  /\ batch' = [batch EXCEPT !.queue = Tail(@)]
  /\ UNCHANGED <<words, last, log, filterVars, markVars, timerVars>>

\* The batch returns: the list is exhausted, or a pass did not return.
BatchReturn ==
  /\ batch.kind # "none"
  /\ \A q \in Passes : passes[q].pc \in Resting
  /\ batch.queue = <<>> \/ \E q \in Passes : passes[q].pc = "stopped"
  /\ batch' = NoBatch
  /\ passes' = [p \in Passes |-> Idle]
  /\ UNCHANGED <<entries, words, last, log, filterVars, markVars, timerVars>>

\* The steps of a pass, as in SpecSteps, with the batch left alone.
NextBatch ==
  \/ \E order \in Orders(entries) : StartAnalyzeUnanalyzedEntries(order)
  \/ \E order \in Orders(entries) : StartForceReanalyzeAll(order)
  \/ \E p \in Passes : BatchRound(p)
  \/ BatchReturn
  \/ \E p \in Passes : GetEntry(p)
  \/ \E p \in Passes : GetWordByText(p)
  \/ \E p \in Passes : PutWord(p)
  \/ \E p \in Passes : RejectPut(p)
  \/ \E p \in Passes : MarkEntryAsAnalyzed(p)
  \/ \E p \in Passes : Stop(p)

SpecBatch == InitBatch /\ [][NextBatch]_vars

\* ---------------------------------------------------------------------------
\* markEntryAsAnalyzed and markEntryAsUnanalyzed step by step: getEntry in
\* one transaction, updateEntry of the object read in another, with content
\* saves of the same entry in between.
MarkCalls == {1, 2}

MarkIds == {1}

NoMark == [pc |-> "idle", id |-> NoId, analyzed |-> FALSE, entry |-> <<>>]

InitMarks ==
  /\ entries = [id \in MarkIds |-> [content |-> <<>>, analyzed |-> FALSE]]
  /\ words = <<>>
  /\ last = Done("init", NoId, FALSE, NoFault, <<>>, Ok)
  /\ log = <<>>
  /\ passes = [p \in Passes |-> Idle]
  /\ filterInput = <<>>
  /\ filterOutput = <<>>
  /\ batch = NoBatch
  /\ marks = [c \in MarkCalls |-> NoMark]
  /\ editor = NoEntry
  /\ saveTimeouts = <<>>
  /\ timers = <<>>
  /\ saves = <<>>

\* `const entry = await this.getEntry(entryId)` of a mark call.
MarkGetEntry(c, entryId, analyzed) ==
  /\ marks[c].pc = "idle"
  /\ entryId \in DOMAIN entries
  /\ marks' = [marks EXCEPT ![c] =
                 [pc |-> "updateEntry", id |-> entryId, analyzed |-> analyzed,
                  entry |-> entries[entryId]]]
  /\ UNCHANGED <<entries, words, last, log, stepVars, filterVars, batchVars, timerVars>>

\* `await this.updateEntry({...entry, analyzed, updatedAt})` of a mark call.
MarkUpdateEntry(c) ==
  /\ marks[c].pc = "updateEntry"
  /\ entries' = updateEntry(entries, marks[c].id,
                            [marks[c].entry EXCEPT !.analyzed = marks[c].analyzed])
  /\ marks' = [marks EXCEPT ![c] = NoMark]
  /\ UNCHANGED <<words, last, log, stepVars, filterVars, batchVars, timerVars>>

\* storageService.updateEntry(entry) of a save: the editor's object, with
\* its content and the analyzed flag it was loaded with, is put whole.
UpdateEntry(entryId, content, analyzed) ==
  /\ entries' = updateEntry(entries, entryId,
                            [content |-> content, analyzed |-> analyzed])
  /\ last' = Done("updateEntry", entryId, FALSE, NoFault, content, Ok)
  /\ UNCHANGED <<words, log, stepVars, filterVars, batchVars, markVars, timerVars>>

NextMarks ==
  \/ \E c \in MarkCalls, entryId \in MarkIds, analyzed \in BOOLEAN :
       MarkGetEntry(c, entryId, analyzed)
  \/ \E c \in MarkCalls : MarkUpdateEntry(c)
  \/ \E entryId \in DOMAIN entries, content \in Contents :
       \E analyzed \in {FALSE, entries[entryId].analyzed} :
         UpdateEntry(entryId, content, analyzed)

SpecMarks == InitMarks /\ [][NextMarks]_vars

\* ---------------------------------------------------------------------------
\* The auto-save service and one editor: the entry object of the editor, the
\* map saveTimeouts, the timers set with setTimeout and the calls of
\* saveEntry in flight.
MaxTimers == 3
MaxForceSaves == 1

\* What is typed into the editor.
TypedContents == {<<Neko, No>>}

\* The key of a draft: `temp-${entry.date.getTime()}`, which no id equals.
TempKey == 0

EntryKey(entry) == IF entry.id # NoId THEN entry.id ELSE TempKey

MapSet(m, k, v) == [x \in DOMAIN m \cup {k} |-> IF x = k THEN v ELSE m[x]]

MapDelete(m, k) == [x \in DOMAIN m \ {k} |-> m[x]]

\* clearTimeout: a timer that has not fired will not fire; no effect on a
\* timer that has fired.
clearTimeout(ts, t) ==
  IF ts[t].state = "pending" THEN [ts EXCEPT ![t].state = "cleared"] ELSE ts

RECURSIVE clearEach(_, _)
clearEach(ts, ids) ==
  IF ids = {} THEN ts
  ELSE LET t == CHOOSE x \in ids : TRUE
       IN clearEach(clearTimeout(ts, t), ids \ {t})

\* The call of saveEntry up to its first await: the object is copied
\* (updatedEntry) and entry.id decides between updateEntry and createEntry.
SaveCall(timer, entry) ==
  [timer |-> timer, id |-> entry.id, content |-> entry.content,
   analyzed |-> entry.analyzed, state |-> "running"]

ForceSaves == {i \in DOMAIN saves : saves[i].timer = 0}

\* The editor is open on a draft, or on an entry created earlier.
InitAutoSave ==
  /\ \E draft \in BOOLEAN :
       /\ entries = IF draft THEN <<>>
                    ELSE [id \in {1} |-> [content |-> <<>>, analyzed |-> FALSE]]
       /\ editor = [NoEntry EXCEPT !.id = IF draft THEN NoId ELSE 1]
  /\ words = <<>>
  /\ last = Done("init", NoId, FALSE, NoFault, <<>>, Ok)
  /\ log = <<>>
  /\ passes = [p \in Passes |-> Idle]
  /\ filterInput = <<>>
  /\ filterOutput = <<>>
  /\ batch = NoBatch
  /\ marks = <<>>
  /\ saveTimeouts = <<>>
  /\ timers = <<>>
  /\ saves = <<>>

\* handleContentChange: the content is typed into the entry object and
\* scheduleAutoSave(entry) is called.
ScheduleAutoSave(content) ==
  /\ Len(timers) < MaxTimers
  /\ LET entry == [editor EXCEPT !.content = content]
         entryKey == EntryKey(entry)
         cleared == IF entryKey \in DOMAIN saveTimeouts
                    THEN clearTimeout(timers, saveTimeouts[entryKey])
                    ELSE timers
         timeout == Len(timers) + 1
     IN /\ editor' = entry
        /\ timers' = Append(cleared, [state |-> "pending", key |-> entryKey])
        /\ saveTimeouts' = MapSet(saveTimeouts, entryKey, timeout)
        /\ last' = Done("scheduleAutoSave", NoId, FALSE, NoFault, <<>>, Ok)
  /\ UNCHANGED <<entries, words, log, stepVars, filterVars, batchVars, markVars, saves>>

\* The delay of a timer is over: its callback starts and calls saveEntry.
FireTimer(t) ==
  /\ timers[t].state = "pending"
  /\ timers' = [timers EXCEPT ![t].state = "fired"]
  /\ saves' = Append(saves, SaveCall(t, editor))
  /\ last' = Done("timer", NoId, FALSE, NoFault, <<>>, Ok)
  /\ UNCHANGED <<entries, words, log, stepVars, filterVars, batchVars, markVars,
                 editor, saveTimeouts>>

\* forceSave up to the await of saveEntry: the timer found under the
\* entry's present key is cleared and removed, and saveEntry is called.
ForceSave ==
  /\ Cardinality(ForceSaves) < MaxForceSaves
  /\ LET entryKey == EntryKey(editor)
     IN IF entryKey \in DOMAIN saveTimeouts
        THEN /\ timers' = clearTimeout(timers, saveTimeouts[entryKey])
             /\ saveTimeouts' = MapDelete(saveTimeouts, entryKey)
        ELSE UNCHANGED <<timers, saveTimeouts>>
  /\ saves' = Append(saves, SaveCall(0, editor))
  /\ last' = Done("forceSave", NoId, FALSE, NoFault, <<>>, Ok)
  /\ UNCHANGED <<entries, words, log, stepVars, filterVars, batchVars, markVars, editor>>

\* A call of saveEntry returns or throws, and its caller goes on: the entry
\* object receives the id when it has none, and a timer's callback deletes
\* the key it was scheduled under; after a throw the callback only logs.
FinishSave(s, newId, fault) ==
  /\ saves[s].state = "running"
  /\ \E r \in {saveEntry(entries, words,
                          [id |-> saves[s].id, content |-> saves[s].content,
                           analyzed |-> saves[s].analyzed], newId, fault)} :
       /\ entries' = r.entries
       /\ words' = r.words
       /\ saves' = [saves EXCEPT ![s] =
                      [SaveCall(saves[s].timer, NoEntry) EXCEPT
                         !.state = IF r.err = Ok THEN "done" ELSE "failed"]]
       /\ editor' = IF r.err = Ok /\ editor.id = NoId
                    THEN [editor EXCEPT !.id = r.id] ELSE editor
       /\ saveTimeouts' = IF r.err = Ok /\ saves[s].timer # 0
                          THEN MapDelete(saveTimeouts, timers[saves[s].timer].key)
                          ELSE saveTimeouts
       /\ last' = Done("saveEntry", NoId, FALSE, NoFault, <<>>, r.err)
  /\ UNCHANGED <<log, stepVars, filterVars, batchVars, markVars, timers>>

\* cancelAutoSave(entry), from onDestroy and handleDelete of the editor.
CancelAutoSave ==
  /\ LET entryKey == EntryKey(editor)
     IN IF entryKey \in DOMAIN saveTimeouts
        THEN /\ timers' = clearTimeout(timers, saveTimeouts[entryKey])
             /\ saveTimeouts' = MapDelete(saveTimeouts, entryKey)
        ELSE UNCHANGED <<timers, saveTimeouts>>
  /\ last' = Done("cancelAutoSave", NoId, FALSE, NoFault, <<>>, Ok)
  /\ UNCHANGED <<entries, words, log, stepVars, filterVars, batchVars, markVars,
                 editor, saves>>

CancelAllAutoSaves ==
  /\ timers' = clearEach(timers, {saveTimeouts[k] : k \in DOMAIN saveTimeouts})
  /\ saveTimeouts' = <<>>
  /\ last' = Done("cancelAllAutoSaves", NoId, FALSE, NoFault, <<>>, Ok)
  /\ UNCHANGED <<entries, words, log, stepVars, filterVars, batchVars, markVars,
                 editor, saves>>

getPendingSaveCount == Cardinality(DOMAIN saveTimeouts)

hasPendingSave(entry) == EntryKey(entry) \in DOMAIN saveTimeouts

NextAutoSave ==
  \/ \E content \in TypedContents : ScheduleAutoSave(content)
  \/ \E t \in DOMAIN timers : FireTimer(t)
  \/ ForceSave
  \/ \E s \in DOMAIN saves :
       \/ /\ saves[s].id # NoId
          /\ FinishSave(s, NoId, NoFault)
       \/ /\ saves[s].id = NoId
          /\ \E newId \in EntryIds \ DOMAIN entries : FinishSave(s, newId, NoFault)
       \/ FinishSave(s, NoId, Fault("putEntry", NoId, <<>>))
  \/ CancelAutoSave
  \/ CancelAllAutoSaves

SpecAutoSave == InitAutoSave /\ [][NextAutoSave]_vars

-----------------------------------------------------------------------------
(* The filter on its own: extractContentWords applied to a token list.     *)

MaxTokens == 2

A == <<12450>>
Hashiru == <<36208, 12427>>
Totemo == <<12392, 12390, 12418>>
Soshite == <<12381, 12375, 12390>>

Setsuzokushi == "setsuzokushi"

FilterTokens ==
  {Token(Neko), Token(Ne), Token(No), Token(Desu), Token(Space), Token(Kawaii),
   [word |-> A, pos |-> Meishi, reading |-> <<12450>>],
   [word |-> Hashiru, pos |-> Doushi, reading |-> <<12495, 12471, 12523>>],
   [word |-> Totemo, pos |-> Fukushi, reading |-> <<12488, 12486, 12514>>],
   [word |-> Soshite, pos |-> Setsuzokushi, reading |-> <<12477, 12471, 12486>>]}

InitFilter ==
  /\ entries = <<>>
  /\ words = <<>>
  /\ last = Done("init", NoId, FALSE, NoFault, <<>>, Ok)
  /\ log = <<>>
  /\ passes = [p \in Passes |-> Idle]
  /\ filterInput \in UNION {[1..n -> FilterTokens] : n \in 0..MaxTokens}
  /\ filterOutput = <<>>
  /\ batch = NoBatch
  /\ marks = <<>>
  /\ editor = NoEntry
  /\ saveTimeouts = <<>>
  /\ timers = <<>>
  /\ saves = <<>>

ExtractContentWords ==
  /\ filterOutput' = extractContentWords(filterInput)
  /\ last' = Done("extractContentWords", NoId, FALSE, NoFault, <<>>, Ok)
  /\ UNCHANGED <<entries, words, log, stepVars, filterInput, batchVars, markVars, timerVars>>

NextFilter == ExtractContentWords

SpecFilter == InitFilter /\ [][NextFilter]_vars

-----------------------------------------------------------------------------
(* Vocabulary of the properties *)

ContentWordTexts(content) ==
  LET contentWords == extractContentWords(MecabQuery(content))
  IN [i \in DOMAIN contentWords |-> contentWords[i].word]

Occurrences(wordText, content) ==
  Cardinality({i \in DOMAIN ContentWordTexts(content) :
                 ContentWordTexts(content)[i] = wordText})

RowsOf(ws, wordText) == {i \in DOMAIN ws : ws[i].word = wordText}

RECURSIVE SumFrequency(_, _)
SumFrequency(ws, rows) ==
  IF rows = {} THEN 0
  ELSE LET i == Min(rows) IN ws[i].frequency + SumFrequency(ws, rows \ {i})

Frequency(ws, wordText) == SumFrequency(ws, RowsOf(ws, wordText))

SourcesOf(ws, wordText) == UNION {Range(ws[i].entryIds) : i \in RowsOf(ws, wordText)}

RECURSIVE SumOccurrences(_, _, _)
SumOccurrences(es, ids, wordText) ==
  IF ids = {} THEN 0
  ELSE LET id == Min(ids)
       IN Occurrences(wordText, es[id].content)
            + SumOccurrences(es, ids \ {id}, wordText)

StoredTexts(ws) == {ws[i].word : i \in DOMAIN ws}

IsAnalyzeEntry(l) == l.op = "analyzeEntry"

-----------------------------------------------------------------------------
(* Properties of the analysis orchestrator *)

\* C1: analyzeEntry(id, force = false) on an entry whose analyzed flag is true
\* returns without error and changes neither an entry nor a word; a second
\* analyzeEntry(id, false) right after a successful first one changes nothing.
C1_SkipIsNoOp ==
  [][/\ (IsAnalyzeEntry(last') /\ ~last'.force /\ last'.id \in DOMAIN entries
           /\ entries[last'.id].analyzed)
          => (last'.err = Ok /\ entries' = entries /\ words' = words)
     /\ (IsAnalyzeEntry(last) /\ ~last.force /\ last.err = Ok
           /\ IsAnalyzeEntry(last') /\ ~last'.force /\ last'.id = last.id)
          => (last'.err = Ok /\ entries' = entries /\ words' = words)]_vars

\* A skipped call: the entry is analyzed, its content has the word 猫, no
\* word is tracked (the row was deleted), and analyzeEntry(id, false) returned.
C1_Witness ==
  /\ IsAnalyzeEntry(last) /\ ~last.force /\ last.err = Ok /\ last.fault = NoFault
  /\ last.id \in DOMAIN entries
  /\ entries[last.id].analyzed
  /\ Occurrences(Neko, entries[last.id].content) > 0
  /\ words = <<>>

\* C2: a rejected word merge during analyzeEntry makes analyzeEntry fail and
\* leaves the entry Unanalyzed.
C2_MergeFailurePropagates ==
  [][(IsAnalyzeEntry(last') /\ last'.fault.kind = "createOrUpdateWord")
       => (last'.err # Ok /\ ~entries'[last'.id].analyzed)]_vars

\* C3: after forceReanalyzeAll has completed, every entry with non-empty
\* content is analyzed and the words store is what one pass over the current
\* entries produces on an empty store.
C3_RebuildReconciles ==
  (last.op = "forceReanalyzeAll" /\ last.err = Ok)
    => /\ \A id \in DOMAIN entries :
            entries[id].content # <<>> => entries[id].analyzed
       /\ \A wordText \in StoredTexts(words) \cup {Neko, Inu} :
            /\ Cardinality(RowsOf(words, wordText)) <= 1
            /\ Frequency(words, wordText)
                 = SumOccurrences(entries, DOMAIN entries, wordText)
            /\ SourcesOf(words, wordText)
                 = {id \in DOMAIN entries :
                      Occurrences(wordText, entries[id].content) > 0}

\* C4: an entry is analyzed if and only if every content word of its content
\* has a TrackedWord whose entryIds holds the entry's id.
C4_AnalyzedIffTracked ==
  \A id \in DOMAIN entries :
    entries[id].analyzed <=>
      \A wordText \in Range(ContentWordTexts(entries[id].content)) :
        id \in SourcesOf(words, wordText)

\* C5: in analyzeUnanalyzedEntries the failure of one entry leaves every other
\* entry that was Unanalyzed at the start analyzed at the end.
C5_BatchGoesOn ==
  [][(last'.op = "analyzeUnanalyzedEntries"
        /\ last'.fault.kind = "markEntryAsAnalyzed")
       => \A id \in DOMAIN entries :
            (id # last'.fault.id /\ ~entries[id].analyzed)
              => entries'[id].analyzed]_vars

\* C8: analyzeEntry(id, force = true) on an existing entry merges every
\* content word of the entry, analyzed before or not (also when the mark that
\* follows the merges is rejected), and without a failing step the entry ends
\* Analyzed.
C8_ForceAlwaysAnalyzes ==
  [][(IsAnalyzeEntry(last') /\ last'.force /\ last'.id \in DOMAIN entries
        /\ last'.fault.kind \in {"none", "markEntryAsAnalyzed"})
       => /\ last'.fault = NoFault
               => /\ last'.err = Ok
                  /\ entries' = [entries EXCEPT ![last'.id].analyzed = TRUE]
          /\ \A wordText \in StoredTexts(words) \cup StoredTexts(words') \cup {Neko, Inu} :
               LET n == Occurrences(wordText, entries[last'.id].content)
               IN /\ Frequency(words', wordText) = Frequency(words, wordText) + n
                  /\ SourcesOf(words', wordText)
                       = SourcesOf(words, wordText)
                           \cup (IF n > 0 THEN {last'.id} ELSE {})]_vars

\* A forced analysis of an entry that had been analyzed before: its word has
\* been merged twice for the one entry.
C8_Witness ==
  /\ IsAnalyzeEntry(last) /\ last.force /\ last.fault = NoFault /\ last.err = Ok
  /\ last.id \in DOMAIN entries
  /\ entries[last.id].analyzed
  /\ Occurrences(Neko, entries[last.id].content) = 1
  /\ DOMAIN entries = {last.id}
  /\ Frequency(words, Neko) = 2

\* C9: analyzeEntry for an id that is not stored fails with the entry-not-found
\* error, with and without force, and changes no entry and no word.
C9_MissingEntryFails ==
  [][(IsAnalyzeEntry(last') /\ last'.id \notin DOMAIN entries)
       => (last'.err = "Entry with id not found"
             /\ entries' = entries /\ words' = words)]_vars

C9_Witness ==
  /\ IsAnalyzeEntry(last) /\ last.force
  /\ last.id \notin DOMAIN entries
  /\ last.err = "Entry with id not found"
  /\ DOMAIN entries # {} /\ words # <<>>

\* C10: analyzeAfterSave never rejects, and saveEntry, once its content write
\* went through, returns the saved entry with the written content in the store
\* whatever fails in the analysis.
C10_AnalyzeAfterSaveSwallows ==
  /\ last.op = "analyzeAfterSave" => last.err = Ok
  /\ (last.op = "saveEntry" /\ last.fault.kind # "putEntry")
       => /\ last.err = Ok
          /\ last.id \in DOMAIN entries
          /\ entries[last.id].content = last.content

\* A save whose analysis failed at the mark: the content is stored, the entry
\* is Unanalyzed and saveEntry returned.
C10_Witness ==
  /\ last.op = "saveEntry" /\ last.err = Ok
  /\ last.fault.kind \in {"markEntryAsAnalyzed", "markEntryAsUnanalyzed"}
  /\ entries[last.id].content = last.content
  /\ last.content # <<>>

\* C18: a save whose flip to Unanalyzed rejects, or whose analyzeEntry
\* rejects, leaves the saved entry Unanalyzed, also when the entry was handed
\* to the save with analyzed = true.
C18_SaveUnmarksFirst ==
  (last.op = "saveEntry" /\ last.id \in DOMAIN entries
     /\ last.fault.kind \in {"markEntryAsUnanalyzed", "markEntryAsAnalyzed"})
    => ~entries[last.id].analyzed

\* C19: when forceReanalyzeAll fails in the re-analysis of an entry, after the
\* wipe of the words, every entry with a content word that has no row holding
\* the entry is Unanalyzed.
C19_FailedRebuildResumable ==
  (last.op = "forceReanalyzeAll" /\ last.err # Ok
     /\ last.fault.kind = "markEntryAsAnalyzed")
    => \A id \in DOMAIN entries :
         (\E wordText \in Range(ContentWordTexts(entries[id].content)) :
            id \notin SourcesOf(words, wordText))
           => ~entries[id].analyzed

\* C20: a save of an entry with the content it has in the store, with no
\* failure, adds to each word its number of occurrences in the content; when
\* the save before was the same save, no entryIds changes.
C20_EverySaveCounts ==
  [][/\ (last'.op = "saveEntry" /\ last'.fault = NoFault
           /\ last'.id \in DOMAIN entries
           /\ entries[last'.id].content = last'.content)
          => \A wordText \in StoredTexts(words) \cup StoredTexts(words') \cup {Neko, Inu} :
               LET n == Occurrences(wordText, last'.content)
               IN /\ Frequency(words', wordText) = Frequency(words, wordText) + n
                  /\ SourcesOf(words', wordText)
                       = SourcesOf(words, wordText)
                           \cup (IF n > 0 THEN {last'.id} ELSE {})
     /\ (last.op = "saveEntry" /\ last.fault = NoFault
           /\ last'.op = "saveEntry" /\ last'.fault = NoFault
           /\ last'.id = last.id /\ last'.content = last.content)
          => /\ DOMAIN words' = DOMAIN words
             /\ \A i \in DOMAIN words : words'[i].entryIds = words[i].entryIds]_vars

\* The entry 猫の saved twice: 猫 has frequency 2 and the entry as its source.
C20_Witness ==
  /\ last.op = "saveEntry" /\ last.fault = NoFault /\ last.err = Ok
  /\ last.content = <<Neko, No>>
  /\ DOMAIN entries = {last.id}
  /\ entries[last.id].analyzed
  /\ \E i \in DOMAIN words :
       /\ DOMAIN words = {i}
       /\ words[i].word = Neko
       /\ words[i].frequency = 2
       /\ words[i].entryIds = <<last.id>>

-----------------------------------------------------------------------------
(* Properties of the merge engine, under SpecMerge *)

UpsertsOf(wordText) == SelectSeq(log, LAMBDA u : u.word = wordText)

\* C6: the first upsert of a word creates one row with frequency 1 and the
\* source entry; after n upserts the row has frequency n and entryIds is the
\* set of the n source entries.
C6_MergeCorrect ==
  \A wordText \in MergeTexts :
    LET ups == UpsertsOf(wordText)
    IN IF ups = <<>> THEN RowsOf(words, wordText) = {}
       ELSE /\ Cardinality(RowsOf(words, wordText)) = 1
            /\ Frequency(words, wordText) = Len(ups)
            /\ SourcesOf(words, wordText) = {ups[i].entryId : i \in DOMAIN ups}

\* 猫 merged from entry 1 then from entry 2.
C6_Witness ==
  /\ log = <<[word |-> Neko, entryId |-> 1], [word |-> Neko, entryId |-> 2]>>
  /\ Frequency(words, Neko) = 2
  /\ SourcesOf(words, Neko) = {1, 2}

\* C7: entryIds never holds an entry id twice; two upserts of the same word
\* from the same entry leave the entry once in entryIds and add two to the
\* frequency.
C7_EntryIdsDistinct ==
  /\ \A i \in DOMAIN words :
       \A j, k \in DOMAIN words[i].entryIds :
         j # k => words[i].entryIds[j] # words[i].entryIds[k]
  /\ \A i \in DOMAIN words :
       \A id \in EntryIds :
         LET same == SelectSeq(log, LAMBDA u : u.word = words[i].word /\ u.entryId = id)
         IN Len(same) >= 2
              => /\ Cardinality({j \in DOMAIN words[i].entryIds :
                                   words[i].entryIds[j] = id}) = 1
                 /\ words[i].frequency >= 2

\* 猫 merged twice from entry 1.
C7_Witness ==
  /\ log = <<[word |-> Neko, entryId |-> 1], [word |-> Neko, entryId |-> 1]>>
  /\ \E i \in DOMAIN words :
       words[i].word = Neko /\ words[i].entryIds = <<1>> /\ words[i].frequency = 2

-----------------------------------------------------------------------------
(* Properties of the extraction pipeline, under SpecTokenizer *)

SentenceTexts(ws, ws2) ==
  StoredTexts(ws) \cup StoredTexts(ws2) \cup {Watashi, Inu, Kawaii}

\* C11: when the tokenizer fails (its initialisation or its query rejects),
\* analyzeEntry fails, no word is merged and the entry is not marked Analyzed.
C11_TokenizerFailureSurfaces ==
  [][(IsAnalyzeEntry(last') /\ last'.fault.kind \in {"mecabInit", "mecabQuery"})
       => /\ last'.err # Ok
          /\ words' = words
          /\ ~entries'[last'.id].analyzed]_vars

\* C12: analyzeEntry on an empty words store leaves no row for a particle, an
\* auxiliary verb or a symbol of the entry, and for the entry 私の犬が可愛いです
\* exactly three rows, 私, 犬 and 可愛い, each with frequency 1 and the entry as
\* its one source.
C12_EndToEnd ==
  [][(IsAnalyzeEntry(last') /\ last'.fault = NoFault /\ words = <<>>
        /\ last'.id \in DOMAIN entries
        /\ (last'.force \/ ~entries[last'.id].analyzed))
       => LET content == entries[last'.id].content
          IN /\ last'.err = Ok
             /\ \A i \in DOMAIN content :
                  Token(content[i]).pos \in {Joshi, Jodoushi, Kigou}
                    => RowsOf(words', content[i]) = {}
             /\ content = Sentence
                  => /\ StoredTexts(words') = {Watashi, Inu, Kawaii}
                     /\ Cardinality(DOMAIN words') = 3
                     /\ \A i \in DOMAIN words' :
                          /\ words'[i].frequency = 1
                          /\ words'[i].entryIds = <<last'.id>>]_vars

\* The sentence analysed on an empty store: three rows, no row for の, が, です.
C12_Witness ==
  /\ IsAnalyzeEntry(last) /\ last.fault = NoFault /\ last.err = Ok
  /\ last.id \in DOMAIN entries
  /\ entries[last.id].content = Sentence
  /\ StoredTexts(words) = {Watashi, Inu, Kawaii}
  /\ \A i \in DOMAIN words : words[i].frequency = 1 /\ words[i].entryIds = <<last.id>>

\* C17: when a merge is rejected in an analyzeEntry call, the other words of
\* the entry keep the increments of that call, and a forced analyzeEntry of
\* the same entry right after, with no failure, increments every content word
\* of the entry again.
C17_NoRollback ==
  [][/\ (IsAnalyzeEntry(last') /\ last'.fault.kind = "createOrUpdateWord")
          => \A wordText \in SentenceTexts(words, words') :
               Frequency(words', wordText)
                 = Frequency(words, wordText)
                     + (IF wordText = last'.fault.word THEN 0
                        ELSE Occurrences(wordText, entries[last'.id].content))
     /\ (IsAnalyzeEntry(last) /\ last.fault.kind = "createOrUpdateWord"
           /\ IsAnalyzeEntry(last') /\ last'.id = last.id
           /\ last'.force /\ last'.fault = NoFault)
          => \A wordText \in SentenceTexts(words, words') :
               Frequency(words', wordText)
                 = Frequency(words, wordText)
                     + Occurrences(wordText, entries[last'.id].content)]_vars

\* The merge of 可愛い was rejected in a first pass over the sentence and a
\* forced pass followed: 私 and 犬 were counted twice, 可愛い once.
C17_Witness ==
  /\ IsAnalyzeEntry(last) /\ last.force /\ last.fault = NoFault /\ last.err = Ok
  /\ DOMAIN entries = {last.id}
  /\ entries[last.id].content = Sentence
  /\ Frequency(words, Watashi) = 2
  /\ Frequency(words, Inu) = 2
  /\ Frequency(words, Kawaii) = 1

-----------------------------------------------------------------------------
(* Properties of the filter, under SpecFilter *)

IsSingleKana(word) == Len(word) = 1 /\ (isHiragana(word) \/ isKatakana(word))

IsContentPos(pos) == pos \in {Meishi, Doushi, Keiyoushi, Fukushi}

\* C13: the filter returns, in input order, exactly the tokens whose POS is
\* noun, verb, adjective or adverb and whose surface is not one kana character;
\* an empty input gives an empty output.
C13_FilterExact ==
  last.op = "extractContentWords"
    => filterOutput
         = SelectSeq(filterInput,
                     LAMBDA t : IsContentPos(t.pos) /\ ~IsSingleKana(t.word))

\* C14: no token whose surface is one hiragana or katakana character is in the
\* output of the filter, whatever its POS.
C14_SingleKanaExcluded ==
  last.op = "extractContentWords"
    => \A i \in DOMAIN filterOutput : ~IsSingleKana(filterOutput[i].word)

-----------------------------------------------------------------------------
(* Properties of the interleaved passes, under SpecSteps *)

PutDone(p) ==
  passes[p].pc = "put" /\ Len(passes'[p].merged) = Len(passes[p].merged) + 1

\* C15: the write of a merge is made from the row the pass read: the stored
\* frequency becomes the frequency read plus one, whatever another pass wrote
\* in between, so of two passes that read the same row the one that writes
\* later wins and one increment is lost.
C15_LaterWriteWins ==
  [][\A p \in Passes :
       (PutDone(p) /\ passes[p].existingWord # NoId)
         => /\ words'[passes[p].existingWord].frequency
                 = passes[p].row.frequency + 1
            /\ \A i \in DOMAIN words \ {passes[p].existingWord} :
                 i \in DOMAIN words' /\ words'[i] = words[i]]_vars

\* Both passes read the row of 猫 at frequency 1 and both have written their
\* merge: the frequency is 2.
C15_Witness ==
  \E id \in DOMAIN words :
    /\ words[id].word = Neko /\ words[id].frequency = 2
    /\ \A p \in Passes :
         /\ passes[p].existingWord = id
         /\ passes[p].row.frequency = 1
         /\ passes[p].merged = <<Neko>>

\* C16: an entry goes from Unanalyzed to Analyzed only by the pass that has
\* merged every content word of the entry; a pass that stops between two
\* merges changes neither store, and when it is the only pass the entry is
\* then Unanalyzed with the vocabulary partly updated.
C16_AnalyzedAfterAllMerged ==
  [][/\ \A id \in DOMAIN entries :
          (~entries[id].analyzed /\ entries'[id].analyzed)
            => \E p \in Passes :
                 /\ passes[p].pc = "mark" /\ passes[p].id = id
                 /\ passes'[p].pc = "done"
                 /\ Range(ContentWordTexts(entries[id].content))
                      \subseteq Range(passes[p].merged)
     /\ \A p \in Passes :
          (passes[p].pc \in {"getWordByText", "put"} /\ passes[p].merged # <<>>
             /\ passes'[p].pc = "stopped")
            => /\ entries' = entries /\ words' = words
               /\ (\A q \in Passes \ {p} : passes[q].pc = "idle")
                    => (~entries'[passes[p].id].analyzed /\ words' # <<>>)]_vars

\* C21: in a pass the words are merged in the order of the filter's output,
\* one at a time: the lookup of a word is made when every word before it has
\* been written or rejected, and each write is the write of the next word.
C21_MergeInFilterOrder ==
  [][\A p \in Passes :
       LET all == ContentWordTexts(entries[passes[p].id].content)
           k == Len(passes[p].merged) + Len(passes[p].skipped) + 1
       IN /\ (passes[p].pc = "getWordByText" /\ passes'[p].pc = "put")
               => /\ Head(passes[p].toks).word = all[k]
                  /\ Len(passes[p].toks) = Len(all) - k + 1
          /\ PutDone(p)
               => /\ passes'[p].merged = Append(passes[p].merged, all[k])
                  /\ \E i \in DOMAIN words' :
                       /\ words'[i].word = all[k]
                       /\ \A j \in DOMAIN words' \ {i} :
                            j \in DOMAIN words /\ words'[j] = words[j]]_vars

\* A pass over 猫の犬 has written 猫, then 犬, and is about to mark the entry.
C21_Witness ==
  \E p \in Passes :
    /\ passes[p].pc = "mark"
    /\ passes[p].merged = <<Neko, Inu>>
    /\ StoredTexts(words) = {Neko, Inu}

\* C25: no word text has two rows.
C25_OneRowPerText ==
  \A wordText \in StoredTexts(words) : Cardinality(RowsOf(words, wordText)) <= 1

C22_WriteOfSnapshot(p, i) ==
  /\ words'[i].word = Head(passes[p].toks).word
  /\ \A j \in DOMAIN words \ {i} : words'[j] = words[j]
  /\ IF passes[p].existingWord = NoId
     THEN i \notin DOMAIN words /\ words'[i].frequency = 1
     ELSE /\ i = passes[p].existingWord
          /\ words'[i].frequency = passes[p].row.frequency + 1
          /\ Range(passes[p].row.entryIds) \subseteq Range(words'[i].entryIds)

C24_OneEntryAtATime ==
  /\ Cardinality({p \in Passes : passes[p].pc \notin Resting}) <= 1
  /\ \A p, q \in Passes :
       (passes[p].id # NoId /\ passes[q].id # NoId) => passes[p].id = passes[q].id

\* A batch of forceReanalyzeAll has analyzed its first entry and is writing
\* the word of its second and last one.
C24_Witness ==
  /\ batch = [kind |-> "forceReanalyzeAll", queue |-> <<>>]
  /\ \E p \in Passes :
       /\ passes[p].pc = "put"
       /\ passes[p].id = 2
       /\ entries[1].analyzed
       /\ StoredTexts(words) = {Neko}

\* C26: the write of a mark call changes the analyzed flag only: the stored
\* content after the write is the stored content before it, which is the
\* content most recently saved.
C26_MarkKeepsContent ==
  [][\A c \in MarkCalls :
       (marks[c].pc = "updateEntry" /\ marks'[c].pc = "idle")
         => entries'[marks[c].id].content = entries[marks[c].id].content]_vars

\* The timers that will fire if nothing clears them.
PendingTimers == {t \in DOMAIN timers : timers[t].state = "pending"}

\* C27: the editor's entry is stored as at most one entry, however the timers
\* and forceSave interleave (the store holds nothing else).
C27_DraftStoredOnce ==
  Cardinality(DOMAIN entries) <= 1

\* C28: at most one timer is pending under each entry key.
C28_OnePendingTimerPerKey ==
  \A t1, t2 \in PendingTimers : timers[t1].key = timers[t2].key => t1 = t2

\* C29: when forceSave has cancelled and called saveEntry, no timer set
\* earlier is left to fire and hasPendingSave(entry) is false.
C29_ForceSaveCancels ==
  last.op = "forceSave" => PendingTimers = {} /\ ~hasPendingSave(editor)

\* C30: after cancelAutoSave(entry) or cancelAllAutoSaves() no timer set
\* earlier is left to fire, and getPendingSaveCount() is 0 after
\* cancelAllAutoSaves().
C30_CancelStopsTimers ==
  /\ last.op \in {"cancelAutoSave", "cancelAllAutoSaves"} => PendingTimers = {}
  /\ last.op = "cancelAllAutoSaves" => getPendingSaveCount = 0

\* The timers whose callback has run to its end, the save returned or thrown.
EndedTimers ==
  {saves[s].timer : s \in {x \in DOMAIN saves : saves[x].state \in {"done", "failed"}}}
    \ {0}

\* C31: a timer whose save attempt has ended is no longer registered in
\* saveTimeouts: the key it holds there, if any, belongs to a newer timer.
C31_EndedTimerNotPending ==
  \A k \in DOMAIN saveTimeouts : saveTimeouts[k] \notin EndedTimers

\* C32: every stored word has at least one source entry and a frequency
\* that is at least the number of its source entries.
C32_FrequencyCoversEntryIds ==
  \A i \in DOMAIN words :
    /\ Len(words[i].entryIds) >= 1
    /\ words[i].frequency >= Len(words[i].entryIds)

\* Two passes over different entries read the same row of 猫 and both wrote:
\* one increment is lost, and the row has frequency 2 with both entries.
C32_Witness ==
  \E p, q \in Passes :
    /\ passes[p].id = 1 /\ passes[q].id = 2
    /\ passes[p].merged # <<>> /\ passes[q].merged = <<Neko>>
    /\ passes[p].existingWord # NoId
    /\ passes[p].existingWord = passes[q].existingWord
    /\ passes[p].row = passes[q].row
    /\ words[passes[p].existingWord].frequency = 2
    /\ Len(words[passes[p].existingWord].entryIds) = 2

C34_EntryIdsRefer ==
  \A i \in DOMAIN words : Range(words[i].entryIds) \subseteq DOMAIN entries

\* C35: a save whose analysis pass met no failure raises the frequency of
\* every word by the number of its occurrences among the content words of the
\* saved content: by 2 for 猫 in 猫ね 猫, by 1 for 猫 in 猫の, by 0 for any
\* other word.
C35_GainIsOccurrences ==
  [][(last'.op = "saveEntry" /\ last'.fault = NoFault /\ last'.err = Ok)
       => /\ \A wordText \in StoredTexts(words) \cup StoredTexts(words') \cup {Neko, Inu, Ne, No} :
               Frequency(words', wordText) - Frequency(words, wordText)
                 = Occurrences(wordText, last'.content)
          /\ last'.content = <<Neko, Ne, Space, Neko>>
               => Frequency(words', Neko) = Frequency(words, Neko) + 2
          /\ last'.content = <<Neko, No>>
               => Frequency(words', Neko) = Frequency(words, Neko) + 1]_vars

\* The entry 猫ね 猫 saved once on an empty store: 猫 has frequency 2.
C35_Witness ==
  /\ last.op = "saveEntry" /\ last.fault = NoFault /\ last.err = Ok
  /\ last.content = <<Neko, Ne, Space, Neko>>
  /\ \E i \in DOMAIN words :
       /\ DOMAIN words = {i}
       /\ words[i].word = Neko
       /\ words[i].frequency = 2
       /\ words[i].entryIds = <<last.id>>

\* C36: one save from the editor's Save button raises the frequency of each
\* word by the number of its occurrences among the content words, once.
C36_OnePassPerSave ==
  [][last'.op = "handleSave"
       => \A wordText \in StoredTexts(words) \cup StoredTexts(words') \cup {Neko} :
            Frequency(words', wordText) - Frequency(words, wordText)
              = Occurrences(wordText, last'.content)]_vars

\* C37: when analyzeUnanalyzedEntries returns without an error, with every
\* entry of its list handed to a pass that returned, every stored entry is
\* Analyzed, the entries without content included.
C37_BatchLeavesNoneUnanalyzed ==
  [][(batch.kind = "analyzeUnanalyzedEntries" /\ batch' = NoBatch
        /\ batch.queue = <<>>
        /\ \A q \in Passes : passes[q].pc # "stopped")
       => \A id \in DOMAIN entries' : entries'[id].analyzed]_vars

\* A batch of analyzeUnanalyzedEntries has gone through both entries, the
\* second one without content, and is about to return.
C37_Witness ==
  /\ batch = [kind |-> "analyzeUnanalyzedEntries", queue |-> <<>>]
  /\ \A q \in Passes : passes[q].pc \in {"idle", "done"}
  /\ \E q \in Passes : passes[q].pc = "done"
  /\ entries[2].content = <<>>
  /\ entries[1].analyzed /\ entries[2].analyzed
  /\ StoredTexts(words) = {Neko}

====
